---- MODULE Spec2Model ----
(***************************************************************************)
(* Model of the Vibe-Automation front end:                                 *)
(*   - AppComponent.generateDirectorySummary / pickAndSummarizeDirectory   *)
(*     and the three user operations (src/src/app.component.ts),           *)
(*   - GeminiService (src/src/services/gemini.service.ts),                 *)
(*   - VisualizationComponent.chartData / parseBenefitToWeeklyHours        *)
(*     (src/unnamed/part_000).                                             *)
(* Strings whose characters the code inspects (file names, paths, tree     *)
(* lines, benefit texts) are sequences of one-character strings.           *)
(***************************************************************************)
EXTENDS Integers, Sequences, FiniteSets, TLC

VARIABLES
    \* ---- generateDirectorySummary: inputs
    tree,            \* the picked directory: node id -> handle (name, kind, ...)
    keyFiles,        \* the caller's keyFiles set
    checkExtension,  \* the caller's checkExtension flag
    maxDepth,        \* the maxDepth parameter
    \* ---- generateDirectorySummary: results
    fileTree,        \* fileTree: the tree lines, in emission order
    importantFiles,  \* importantFiles: {path, content} in capture order
    visited,         \* history: the node behind each line of fileTree
    captured,        \* history: the node behind each entry of importantFiles
    warnings,        \* history: nodes whose read failure was console.warn'ed
    raised,          \* whether generateDirectorySummary rejected
    sumPc,           \* "ready" before the call, "done" after it
    \* ---- parseBenefitToWeeklyHours
    benefit,         \* the benefit string
    hours,           \* the returned number, as a fraction <<num, den>>
    benPc,
    \* ---- chartData
    chartInput,      \* the suggestions input signal (NULL or a sequence)
    chartData,       \* the computed ChartData[]
    chartPc,
    \* ---- GeminiService and AppComponent
    apiKey,          \* process.env.API_KEY at construction
    hasDirectoryPicker, \* 'showDirectoryPicker' in window
    isConfigured,    \* GeminiService.isConfigured
    ai,              \* GeminiService.ai: NULL or "client"
    requests,        \* number of generateContent requests sent to the AI service
    taskDescription, \* AppComponent.taskDescription
    suggestions,     \* AppComponent.suggestions
    loadingState,    \* AppComponent.loadingState
    error,           \* AppComponent.error
    op,              \* the operation in flight and its continuation
    lastOp           \* history: what the last finished operation went through

sumVars   == <<tree, keyFiles, checkExtension, maxDepth, fileTree, importantFiles,
               visited, captured, warnings, raised, sumPc>>
benVars   == <<benefit, hours, benPc>>
chartVars == <<chartInput, chartData, chartPc>>
appVars   == <<apiKey, hasDirectoryPicker, isConfigured, ai, requests, taskDescription, suggestions,
               loadingState, error, op, lastOp>>
vars      == <<sumVars, benVars, chartVars, appVars>>

NULL == "null"

\* AutomationSuggestion[] | null: null, or an array
NullList == [isNull |-> TRUE, items |-> <<>>]
ListOf(q) == [isNull |-> FALSE, items |-> q]

(***************************************************************************)
(* String helpers: the JavaScript string operations the code uses.         *)
(***************************************************************************)

\* String.prototype.endsWith
EndsWith(s, suffix) ==
    /\ Len(suffix) <= Len(s)
    /\ SubSeq(s, Len(s) - Len(suffix) + 1, Len(s)) = suffix

\* String.prototype.includes
Includes(s, sub) ==
    \E i \in 0..(Len(s) - Len(sub)) : SubSeq(s, i + 1, i + Len(sub)) = sub

\* ' '.repeat(n)
RECURSIVE Spaces(_)
Spaces(n) == IF n <= 0 THEN <<>> ELSE <<" ">> \o Spaces(n - 1)

\* number of leading blanks of a line
RECURSIVE LeadingSpaces(_)
LeadingSpaces(s) ==
    IF s # <<>> /\ Head(s) = " " THEN 1 + LeadingSpaces(Tail(s)) ELSE 0

(***************************************************************************)
(* Names used by the directory scan.                                       *)
(***************************************************************************)

IGNORE_DIRS == {
    <<"n","o","d","e","_","m","o","d","u","l","e","s">>,
    <<"d","i","s","t">>,
    <<".","g","i","t">>,
    <<"t","a","r","g","e","t">>,
    <<"b","u","i","l","d">>,
    <<"_","_","p","y","c","a","c","h","e","_","_">> }

\* analyzeTask's keyFiles (extensions)
TaskKeyFiles == {
    <<".","c","s","v">>, <<".","j","s","o","n">>, <<".","x","m","l">>,
    <<".","t","x","t">>, <<".","m","d">> }

\* scanLocalProject's keyFiles (exact names)
ProjectKeyFiles == {
    <<"p","a","c","k","a","g","e",".","j","s","o","n">>,
    <<"p","n","p","m","-","w","o","r","k","s","p","a","c","e",".","y","a","m","l">>,
    <<"l","e","r","n","a",".","j","s","o","n">>,
    <<"n","x",".","j","s","o","n">>,
    <<"t","u","r","b","o",".","j","s","o","n">>,
    <<"a","n","g","u","l","a","r",".","j","s","o","n">>,
    <<"v","i","t","e",".","c","o","n","f","i","g",".","t","s">>,
    <<"w","e","b","p","a","c","k",".","c","o","n","f","i","g",".","j","s">>,
    <<".","g","i","t","l","a","b","-","c","i",".","y","m","l">>,
    <<"d","o","c","k","e","r","-","c","o","m","p","o","s","e",".","y","m","l">>,
    <<"D","o","c","k","e","r","f","i","l","e">>,
    <<"J","e","n","k","i","n","s","f","i","l","e">>,
    <<"a","z","u","r","e","-","p","i","p","e","l","i","n","e","s",".","y","m","l">>,
    <<"t","s","c","o","n","f","i","g",".","j","s","o","n">>,
    <<"p","y","p","r","o","j","e","c","t",".","t","o","m","l">>,
    <<"r","e","q","u","i","r","e","m","e","n","t","s",".","t","x","t">> }

\* scanLearningFolder's keyFiles (extensions)
LearningKeyFiles == {
    <<".","m","d">>, <<".","t","x","t">>, <<".","j","s","o","n">>,
    <<".","s","r","t">>, <<".","v","t","t">>, <<".","p","d","f">>,
    <<".","e","p","u","b">> }

\* the three (keyFiles, checkExtension) pairs the callers pass
KeyFileConfigs == {
    [keyFiles |-> TaskKeyFiles,     checkExtension |-> TRUE],
    [keyFiles |-> ProjectKeyFiles,  checkExtension |-> FALSE],
    [keyFiles |-> LearningKeyFiles, checkExtension |-> TRUE] }

N_proj         == <<"p","r","o","j">>
N_dist         == <<"d","i","s","t">>
N_src          == <<"s","r","c">>
N_node_modules == <<"n","o","d","e","_","m","o","d","u","l","e","s">>
N_notes_md     == <<"n","o","t","e","s",".","m","d">>
N_book_pdf     == <<"b","o","o","k",".","p","d","f">>
N_main_ts      == <<"m","a","i","n",".","t","s">>
N_package_json == <<"p","a","c","k","a","g","e",".","j","s","o","n">>

(***************************************************************************)
(* The picked directory.  Handles are records; the shape of the tree is    *)
(* the fixed skeleton Kids (a chain 1-2-3-4-5 that goes one level below    *)
(* the default maxDepth, and a second child 6 of the root that is listed   *)
(* after the chain).  A file handle has no values(): the skeleton children *)
(* of a file do not exist.                                                 *)
(***************************************************************************)

Kids == << <<2, 6>>, <<3>>, <<4>>, <<5>>, <<>>, <<>> >>
Nodes == DOMAIN Kids
Root == 1

Parent(n) == CHOOSE p \in Nodes : \E i \in DOMAIN Kids[p] : Kids[p][i] = n

RECURSIVE Depth(_)
Depth(n) == IF n = Root THEN 0 ELSE 1 + Depth(Parent(n))

RECURSIVE Ancestors(_)
Ancestors(n) == IF n = Root THEN {} ELSE {Parent(n)} \cup Ancestors(Parent(n))

Dir(name, list) ==
    [kind |-> "directory", name |-> name, list |-> list,
     size |-> 0, getFile |-> "ok", text |-> "ok", content |-> "none"]

File(name, size, getFile, text) ==
    [kind |-> "file", name |-> name, list |-> "ok",
     size |-> size, getFile |-> getFile, text |-> text, content |-> "hello"]

SizeLimit == 100 * 1024

RootEntries == { Dir(N_proj, "ok"), Dir(N_dist, "ok") }

InnerEntries == {
    Dir(N_src, "ok"), Dir(N_node_modules, "ok"),
    File(N_notes_md, 50, "ok", "ok") }

FirstEntries == InnerEntries \cup {
    Dir(N_src, "fail"),
    File(N_notes_md, 50, "fail", "ok"),
    File(N_package_json, 50, "ok", "ok") }

DeepEntries == {
    Dir(N_src, "ok"), File(N_notes_md, 50, "ok", "ok"),
    File(N_notes_md, 50, "fail", "ok"), File(N_package_json, 50, "ok", "ok") }

LastEntries == {
    Dir(N_src, "ok"), Dir(N_src, "fail"), Dir(N_node_modules, "ok"),
    File(N_notes_md, 50, "ok", "ok"),
    File(N_notes_md, SizeLimit - 1, "ok", "ok"),
    File(N_notes_md, SizeLimit, "ok", "ok"),
    File(N_notes_md, 50, "fail", "ok"),
    File(N_notes_md, 50, "ok", "fail"),
    File(N_book_pdf, 50, "ok", "ok"),
    File(N_main_ts, 50, "ok", "ok"),
    File(N_package_json, 50, "ok", "ok") }

\* nodes that exist in the picked directory: every ancestor is a directory
Exists(t, n) == \A a \in Ancestors(n) : t[a].kind = "directory"

(***************************************************************************)
(* generateDirectorySummary.traverse                                       *)
(***************************************************************************)

\* variant: the depth test is off by one
TooDeep_OffByOne(depth, md) == depth > md + 1

\* if (depth > maxDepth) return;
TooDeep(depth, md) == depth > md

\* const indent = '  '.repeat(depth);
Indent(depth) == Spaces(2 * depth)

Icon(kind) == IF kind = "directory" THEN "dir-icon" ELSE "file-icon"

\* `${indent}${icon} ${handle.name}`
TreeLine(h, depth) == Indent(depth) \o <<Icon(h.kind), " ">> \o h.name

\* variant: the ignore test is missing
IsIgnored_Never(name) == FALSE

\* IGNORE_DIRS.has(handle.name)
IsIgnored(name) == name \in IGNORE_DIRS

\* `${path}/${entry.name}`, the path argument of the recursive call
ChildPath(path, name) == path \o <<"/">> \o name

\* { path: `${path}/${handle.name}`, content }
FilePath(path, name) == path \o <<"/">> \o name

\* isKeyFile
IsKeyFile(name, kf, ce) ==
    IF ce THEN \E ext \in kf : EndsWith(name, ext) ELSE name \in kf

\* handle.name.endsWith('.pdf') || handle.name.endsWith('.epub')
IsBinaryDoc(name) ==
    EndsWith(name, <<".","p","d","f">>) \/ EndsWith(name, <<".","e","p","u","b">>)

\* variant: the size limit is inclusive
SizeOk_Inclusive(size) == size <= SizeLimit

\* file.size < 100 * 1024
SizeOk(size) == size < SizeLimit

\* the body of the try block for a key file: what it ends with
TryRead(h) ==
    IF IsBinaryDoc(h.name) THEN "listed-only"
    ELSE IF h.getFile = "fail" THEN "threw"
    ELSE IF ~SizeOk(h.size) THEN "too-big"
    ELSE IF h.text = "fail" THEN "threw"
    ELSE "read"

\* variant: the read failure is not caught
OnReadError_Rethrow(acc, n) == [acc EXCEPT !.raised = TRUE]

\* catch (e) { console.warn(...) }
OnReadError(acc, n) == [acc EXCEPT !.warnings = Append(@, n)]

\* importantFiles.push({ path, content })
PushFile(acc, h, n, path) ==
    [acc EXCEPT !.importantFiles =
                    Append(@, [path |-> FilePath(path, h.name), content |-> h.content]),
                !.captured = Append(@, n)]

\* the file branch of traverse
VisitFile(acc, cfg, h, n, path) ==
    IF ~IsKeyFile(h.name, cfg.keyFiles, cfg.checkExtension) THEN acc
    ELSE LET r == TryRead(h) IN
         CASE r = "read"  -> PushFile(acc, h, n, path)
           [] r = "threw" -> OnReadError(acc, n)
           [] OTHER       -> acc

\* fileTree.push(...)
PushLine(acc, h, n, depth) ==
    [acc EXCEPT !.fileTree = Append(@, TreeLine(h, depth)),
                !.visited = Append(@, n)]

RECURSIVE Traverse(_, _, _, _, _, _)
RECURSIVE TraverseEntries(_, _, _, _, _, _)

\* async function traverse(handle, path, depth)
Traverse(acc, t, cfg, n, path, depth) ==
    IF TooDeep(depth, cfg.maxDepth) THEN acc
    ELSE LET h  == t[n]
             a1 == PushLine(acc, h, n, depth)
         IN IF h.kind = "directory"
            THEN IF IsIgnored(h.name) THEN a1
                 ELSE IF h.list = "fail" THEN [a1 EXCEPT !.raised = TRUE]
                 ELSE TraverseEntries(a1, t, cfg, Kids[n], path, depth)
            ELSE VisitFile(a1, cfg, h, n, path)

\* for await (const entry of handle.values()) await traverse(entry, ..., depth + 1)
TraverseEntries(acc, t, cfg, kids, path, depth) ==
    IF kids = <<>> THEN acc
    ELSE LET e  == Head(kids)
             a1 == Traverse(acc, t, cfg, e, ChildPath(path, t[e].name), depth + 1)
         IN IF a1.raised THEN a1
            ELSE TraverseEntries(a1, t, cfg, Tail(kids), path, depth)

EmptyAcc ==
    [fileTree |-> <<>>, importantFiles |-> <<>>, visited |-> <<>>,
     captured |-> <<>>, warnings |-> <<>>, raised |-> FALSE]

\* await traverse(directoryHandle, directoryHandle.name, 0)
RunTraverse(t, kf, ce, md) ==
    Traverse(EmptyAcc, t, [keyFiles |-> kf, checkExtension |-> ce, maxDepth |-> md],
             Root, t[Root].name, 0)

(***************************************************************************)
(* Specification of the directory scan: a picked directory, a caller's     *)
(* key-file configuration and a maxDepth, then one call.                   *)
(***************************************************************************)

DefaultMaxDepth == 3
MaxDepthBound == 3

(***************************************************************************)
(* The empty values of the records the application model keeps.            *)
(***************************************************************************)

\* no thrown value
ExcNone == [isError |-> FALSE, isDOMException |-> FALSE, name |-> "none", message |-> "none"]

\* no parsed JSON value
NoJson == [type |-> "none", hasSuggestions |-> FALSE, suggestions |-> <<>>]

\* string | null: null
NoText == [isNull |-> TRUE, text |-> <<>>]

\* the operation in flight: where it is suspended (pc), the value its awaited
\* promise rejected with (exc), the summary it holds (context); and, as
\* history, how the picker ended, whether GeminiService was called and how
\* many requests the operation sent
OpNone ==
    [name |-> "none", pc |-> "none", exc |-> ExcNone, picker |-> "none",
     context |-> NoText, called |-> FALSE, sent |-> 0]

\* history of the last finished operation
LastNone ==
    [name |-> "none", picker |-> "none", ai |-> "none", json |-> NoJson,
     called |-> FALSE, sent |-> 0, end |-> "none"]

SumIdle ==
    /\ tree = <<>> /\ keyFiles = {} /\ checkExtension = FALSE /\ maxDepth = 0
    /\ fileTree = <<>> /\ importantFiles = <<>> /\ visited = <<>>
    /\ captured = <<>> /\ warnings = <<>> /\ raised = FALSE /\ sumPc = "off"

BenIdle == benefit = <<>> /\ hours = <<0, 1>> /\ benPc = "off"

ChartIdle == chartInput = NullList /\ chartData = <<>> /\ chartPc = "off"

AppIdle ==
    /\ apiKey = NULL /\ hasDirectoryPicker = FALSE
    /\ isConfigured = FALSE /\ ai = NULL /\ requests = 0
    /\ taskDescription = <<>> /\ suggestions = NullList /\ loadingState = "idle"
    /\ error = NULL /\ op = OpNone /\ lastOp = LastNone

SumInit ==
    /\ \E r \in RootEntries, a \in FirstEntries, b \in InnerEntries,
          c \in InnerEntries, d \in DeepEntries, e \in LastEntries :
          tree = <<r, a, b, c, d, e>>
    /\ \E cfg \in KeyFileConfigs :
          keyFiles = cfg.keyFiles /\ checkExtension = cfg.checkExtension
    /\ maxDepth \in {DefaultMaxDepth} \cup 0..MaxDepthBound
    /\ fileTree = <<>> /\ importantFiles = <<>> /\ visited = <<>>
    /\ captured = <<>> /\ warnings = <<>> /\ raised = FALSE
    /\ sumPc = "ready"
    /\ BenIdle /\ ChartIdle /\ AppIdle

GenerateDirectorySummary ==
    /\ sumPc = "ready"
    /\ LET r == RunTraverse(tree, keyFiles, checkExtension, maxDepth) IN
         /\ fileTree' = r.fileTree
         /\ importantFiles' = r.importantFiles
         /\ visited' = r.visited
         /\ captured' = r.captured
         /\ warnings' = r.warnings
         /\ raised' = r.raised
    /\ sumPc' = "done"
    /\ UNCHANGED <<tree, keyFiles, checkExtension, maxDepth>>
    /\ UNCHANGED <<benVars, chartVars, appVars>>

SumNext == GenerateDirectorySummary

SpecSummary == SumInit /\ [][SumNext]_vars

(***************************************************************************)
(* Properties of the directory scan.                                       *)
(***************************************************************************)

Range(q) == { q[i] : i \in DOMAIN q }

HasIgnoredAncestor(t, n) == \E a \in Ancestors(n) : t[a].name \in IGNORE_DIRS

IsIgnoredDir(t, n) == t[n].kind = "directory" /\ t[n].name \in IGNORE_DIRS

\* the names from the root down to n, joined by "/"
RECURSIVE RootRelativePath(_, _)
RootRelativePath(t, n) ==
    IF n = Root THEN t[Root].name
    ELSE RootRelativePath(t, Parent(n)) \o <<"/">> \o t[n].name

\* C1: no tree line and no captured key file belongs to a node deeper than
\* maxDepth (root is depth 0, a child is one deeper than its parent), and
\* every line is the node's line indented by exactly 2*depth spaces.
C1_DepthBounded ==
    sumPc = "done" =>
        /\ \A i \in DOMAIN fileTree :
              /\ Depth(visited[i]) <= maxDepth
              /\ LeadingSpaces(fileTree[i]) = 2 * Depth(visited[i])
              /\ fileTree[i] = Spaces(2 * Depth(visited[i]))
                                 \o <<Icon(tree[visited[i]].kind), " ">>
                                 \o tree[visited[i]].name
        /\ \A i \in DOMAIN captured : Depth(captured[i]) <= maxDepth

\* C1 witness: a node below maxDepth exists under a listed, descended directory
C1_Witness ==
    /\ sumPc = "done"
    /\ \E n \in Nodes \ {Root} :
          /\ Exists(tree, n) /\ Depth(n) > maxDepth
          /\ Parent(n) \in Range(visited)
          /\ ~IsIgnoredDir(tree, Parent(n))
          /\ tree[Parent(n)].list = "ok"

\* C2 as stated: every ignored directory within maxDepth is listed, and
\* nothing below an ignored directory is listed or captured.
C2_Original ==
    (sumPc = "done" /\ ~raised) =>
        /\ \A n \in Nodes :
              (Exists(tree, n) /\ IsIgnoredDir(tree, n) /\ Depth(n) <= maxDepth)
                  => n \in Range(visited)
        /\ \A n \in Range(visited) \cup Range(captured) :
              ~HasIgnoredAncestor(tree, n)

\* C2 amended: in a summary that is produced, an ignored directory within
\* maxDepth that is not itself below an ignored directory is listed, and
\* nothing below an ignored directory is ever listed or captured.
C2_IgnoredListedNotDescended ==
    sumPc = "done" =>
        /\ ~raised =>
              \A n \in Nodes :
                 (/\ Exists(tree, n) /\ IsIgnoredDir(tree, n)
                  /\ Depth(n) <= maxDepth /\ ~HasIgnoredAncestor(tree, n))
                     => n \in Range(visited)
        /\ \A n \in Range(visited) \cup Range(captured) :
              ~HasIgnoredAncestor(tree, n)

\* C2 witness: a listed ignored directory has a child within maxDepth
C2_Witness ==
    /\ sumPc = "done" /\ ~raised
    /\ \E n \in Range(visited) :
          /\ IsIgnoredDir(tree, n)
          /\ Kids[n] # <<>>
          /\ Depth(n) + 1 <= maxDepth

\* C3 as stated: a captured file's path is root name, ancestor names and
\* file name, each once, and each captured file has one entry.
C3_RootRelativePaths ==
    sumPc = "done" =>
        /\ \A i \in DOMAIN importantFiles :
              importantFiles[i].path = RootRelativePath(tree, captured[i])
        /\ \A i, j \in DOMAIN captured : captured[i] = captured[j] => i = j

\* C4: content is stored only for a key file that is not .pdf/.epub and is
\* smaller than 102400 bytes; a key file failing the size or extension
\* condition is listed, raises no warning and has no key-files entry.
C4_CaptureConditions ==
    sumPc = "done" =>
        /\ \A i \in DOMAIN captured :
              LET h == tree[captured[i]] IN
              /\ h.kind = "file"
              /\ IsKeyFile(h.name, keyFiles, checkExtension)
              /\ ~EndsWith(h.name, <<".","p","d","f">>)
              /\ ~EndsWith(h.name, <<".","e","p","u","b">>)
              /\ h.size < 102400
              /\ importantFiles[i].content = h.content
        /\ \A n \in Range(visited) :
              LET h == tree[n] IN
              (/\ h.kind = "file"
               /\ IsKeyFile(h.name, keyFiles, checkExtension)
               /\ \/ EndsWith(h.name, <<".","p","d","f">>)
                  \/ EndsWith(h.name, <<".","e","p","u","b">>)
                  \/ (h.getFile = "ok" /\ h.size >= 102400))
                 => (n \notin Range(captured) /\ n \notin Range(warnings))

\* C4 witness: a listed key file of exactly 102400 bytes, and a listed .pdf key file
C4_Witness ==
    /\ sumPc = "done"
    /\ \E n \in Range(visited) :
          /\ tree[n].kind = "file" /\ tree[n].size = 102400
          /\ IsKeyFile(tree[n].name, keyFiles, checkExtension)

\* the same directory with every file read succeeding
FailureFree(t) ==
    [n \in DOMAIN t |-> [t[n] EXCEPT !.getFile = "ok", !.text = "ok"]]

\* C5: a failing read of a key file never makes the call raise and never
\* changes which nodes are listed or their order: the tree lines are those
\* of the failure-free run; the failing file is listed and not captured.
C5_ReadFailureAbsorbed ==
    sumPc = "done" =>
        LET ff == RunTraverse(FailureFree(tree), keyFiles, checkExtension, maxDepth) IN
        /\ fileTree = ff.fileTree
        /\ visited = ff.visited
        /\ raised = ff.raised
        /\ raised => \E n \in Range(visited) :
                        tree[n].kind = "directory" /\ tree[n].list = "fail"
        /\ \A n \in Range(warnings) :
              /\ n \in Range(visited)
              /\ n \notin Range(captured)
              /\ tree[n].getFile = "fail" \/ tree[n].text = "fail"
        /\ \A n \in Range(visited) :
              (/\ tree[n].kind = "file"
               /\ IsKeyFile(tree[n].name, keyFiles, checkExtension)
               /\ tree[n].getFile = "fail") => n \in Range(warnings)

\* C5 witness: a read failed and a later node was still listed
C5_Witness ==
    /\ sumPc = "done"
    /\ warnings # <<>>
    /\ \E i, j \in DOMAIN visited :
          i < j /\ visited[i] = warnings[1] /\ tree[visited[j]].kind = "file"

(***************************************************************************)
(* VisualizationComponent.parseBenefitToWeeklyHours                        *)
(* Numbers are exact fractions <<numerator, denominator>>, denominator > 0.*)
(***************************************************************************)

UpperCase == <<"A","B","C","D","E","F","G","H","I","J","K","L","M","N","O","P","Q","R","S","T","U","V","W","X","Y","Z">>
LowerCase == <<"a","b","c","d","e","f","g","h","i","j","k","l","m","n","o","p","q","r","s","t","u","v","w","x","y","z">>

\* benefit.toLowerCase()
LowerChar(c) ==
    IF \E i \in DOMAIN UpperCase : UpperCase[i] = c
    THEN LowerCase[CHOOSE i \in DOMAIN UpperCase : UpperCase[i] = c]
    ELSE c

ToLowerCase(s) == [i \in DOMAIN s |-> LowerChar(s[i])]

DigitChars == <<"0","1","2","3","4","5","6","7","8","9">>

IsDigit(c) == \E i \in DOMAIN DigitChars : DigitChars[i] = c

DigitVal(c) == (CHOOSE i \in DOMAIN DigitChars : DigitChars[i] = c) - 1

\* \d+ matched greedily from position i: the position after the run
RECURSIVE DigitsEnd(_, _)
DigitsEnd(s, i) ==
    IF i <= Len(s) /\ IsDigit(s[i]) THEN DigitsEnd(s, i + 1) ELSE i

\* the leftmost position where /\d+/ can start, or 0
RECURSIVE FirstDigit(_, _)
FirstDigit(s, i) ==
    IF i > Len(s) THEN 0
    ELSE IF IsDigit(s[i]) THEN i
    ELSE FirstDigit(s, i + 1)

\* benefit.match(/(\d+(\.\d+)?)/): NULL, or numbers[0]
MatchNumber(s) ==
    LET i == FirstDigit(s, 1) IN
    IF i = 0 THEN NULL
    ELSE LET j == DigitsEnd(s, i)
             k == IF j + 1 <= Len(s) /\ s[j] = "." /\ IsDigit(s[j + 1])
                  THEN DigitsEnd(s, j + 1) ELSE j
         IN SubSeq(s, i, k - 1)

RECURSIVE DigitsToNat(_)
DigitsToNat(ds) ==
    IF ds = <<>> THEN 0
    ELSE 10 * DigitsToNat(SubSeq(ds, 1, Len(ds) - 1)) + DigitVal(ds[Len(ds)])

RECURSIVE Pow10(_)
Pow10(n) == IF n = 0 THEN 1 ELSE 10 * Pow10(n - 1)

\* parseFloat(numbers[0]) for a string matched by \d+(\.\d+)?
ParseFloat(m) ==
    LET dots == { i \in DOMAIN m : m[i] = "." } IN
    IF dots = {} THEN <<DigitsToNat(m), 1>>
    ELSE LET p == CHOOSE i \in dots : TRUE IN
         << DigitsToNat(SubSeq(m, 1, p - 1) \o SubSeq(m, p + 1, Len(m))),
            Pow10(Len(m) - p) >>

Times(v, n) == <<v[1] * n, v[2]>>
Over(v, n)  == <<v[1], v[2] * n>>
Zero == <<0, 1>>

K_hour      == <<"h","o","u","r">>
K_hr        == <<"h","r">>
K_minute    == <<"m","i","n","u","t","e">>
K_min       == <<"m","i","n">>
K_per_day   == <<"p","e","r"," ","d","a","y">>
K_daily     == <<"d","a","i","l","y">>
K_per_month == <<"p","e","r"," ","m","o","n","t","h">>
K_monthly   == <<"m","o","n","t","h","l","y">>

\* variant: the month test comes before the day test
HoursBranch_MonthFirst(text, value) ==
    IF Includes(text, K_per_month) \/ Includes(text, K_monthly) THEN Over(value, 4)
    ELSE IF Includes(text, K_per_day) \/ Includes(text, K_daily) THEN Times(value, 5)
    ELSE value

\* the body of: if (text.includes('hour') || text.includes('hr'))
HoursBranch(text, value) ==
    IF Includes(text, K_per_day) \/ Includes(text, K_daily) THEN Times(value, 5)
    ELSE IF Includes(text, K_per_month) \/ Includes(text, K_monthly) THEN Over(value, 4)
    ELSE value

\* the body of: if (text.includes('minute') || text.includes('min'))
MinutesBranch(text, value) ==
    LET h == Over(value, 60) IN
    IF Includes(text, K_per_day) \/ Includes(text, K_daily) THEN Times(h, 5)
    ELSE IF Includes(text, K_per_month) \/ Includes(text, K_monthly) THEN Over(h, 4)
    ELSE h

parseBenefitToWeeklyHours(b) ==
    LET text    == ToLowerCase(b)
        numbers == MatchNumber(b)
    IN IF numbers = NULL THEN Zero
       ELSE LET value == ParseFloat(numbers) IN
            IF Includes(text, K_hour) \/ Includes(text, K_hr)
            THEN HoursBranch(text, value)
            ELSE IF Includes(text, K_minute) \/ Includes(text, K_min)
            THEN MinutesBranch(text, value)
            ELSE Zero

(***************************************************************************)
(* Specification of the benefit parser: a benefit string put together from *)
(* a lead-in, a number, a unit phrase, a period phrase and a tail.         *)
(***************************************************************************)

BenefitLeads == {
    <<>>,
    <<"S","a","v","e","s"," ","~">>,
    <<"-">>,
    <<"U","p"," ","t","o"," ">> }

BenefitNumbers == {
    <<>>,
    <<"2">>,
    <<"3","0">>,
    <<"1",".","5">>,
    <<"8">>,
    <<"3",".">>,
    <<".","5">>,
    <<"2","-","3">>,
    <<"0">> }

BenefitUnits == {
    <<>>,
    <<" ","h","o","u","r","s">>,
    <<" ","H","r">>,
    <<" ","m","i","n","u","t","e","s">>,
    <<" ","m","i","n">>,
    <<" ","h","r"," ","3","0"," ","m","i","n">>,
    <<" ","M","I","N","U","T","E","S"," ","o","f"," ","a","n"," ","h","o","u","r">>,
    <<" ","d","a","y","s">> }

BenefitPeriods == {
    <<>>,
    <<" ","p","e","r"," ","d","a","y">>,
    <<" ","d","a","i","l","y">>,
    <<" ","p","e","r"," ","m","o","n","t","h">>,
    <<" ","m","o","n","t","h","l","y">>,
    <<" ","P","e","r"," ","D","a","y">>,
    <<" ","m","o","n","t","h","l","y",","," ","n","o","t"," ","d","a","i","l","y">>,
    <<" ","p","e","r"," ","d","a","y",","," ","4"," ","p","e","r"," ","m","o","n","t","h">>,
    <<" ","p","e","r"," ","w","e","e","k">> }

BenInit ==
    /\ \E l \in BenefitLeads, n \in BenefitNumbers, u \in BenefitUnits,
          p \in BenefitPeriods : benefit = l \o n \o u \o p
    /\ hours = Zero
    /\ benPc = "ready"
    /\ SumIdle /\ ChartIdle /\ AppIdle

ParseBenefit ==
    /\ benPc = "ready"
    /\ hours' = parseBenefitToWeeklyHours(benefit)
    /\ benPc' = "done"
    /\ UNCHANGED benefit
    /\ UNCHANGED <<sumVars, chartVars, appVars>>

BenNext == ParseBenefit

SpecBenefit == BenInit /\ [][BenNext]_vars

\* equality and order of fractions with positive denominators
FracEq(a, b) == a[1] * b[2] = b[1] * a[2]
FracLess(a, b) == a[1] * b[2] < b[1] * a[2]

\* the first unsigned number of s, read off declaratively
RefHasNumber(s) == \E i \in DOMAIN s : IsDigit(s[i])

RefFirstNumber(s) ==
    LET i == CHOOSE x \in DOMAIN s :
                 IsDigit(s[x]) /\ \A y \in 1..(x - 1) : ~IsDigit(s[y])
        j == CHOOSE x \in i..Len(s) :
                 /\ \A y \in i..x : IsDigit(s[y])
                 /\ (x = Len(s) \/ ~IsDigit(s[x + 1]))
        hasFrac == j + 2 <= Len(s) /\ s[j + 1] = "." /\ IsDigit(s[j + 2])
        k == IF ~hasFrac THEN j
             ELSE CHOOSE x \in (j + 2)..Len(s) :
                    /\ \A y \in (j + 2)..x : IsDigit(s[y])
                    /\ (x = Len(s) \/ ~IsDigit(s[x + 1]))
        whole == DigitsToNat(SubSeq(s, i, j))
    IN IF ~hasFrac THEN <<whole, 1>>
       ELSE << whole * Pow10(k - j - 1) + DigitsToNat(SubSeq(s, j + 2, k)),
               Pow10(k - j - 1) >>

\* the reference of the benefit parser, as the specification words it
RefWeeklyHours(b) ==
    LET text     == ToLowerCase(b)
        isHours  == Includes(text, K_hour) \/ Includes(text, K_hr)
        isMins   == Includes(text, K_minute) \/ Includes(text, K_min)
        perDay   == Includes(text, K_per_day) \/ Includes(text, K_daily)
        perMonth == Includes(text, K_per_month) \/ Includes(text, K_monthly)
    IN IF ~RefHasNumber(b) \/ ~(isHours \/ isMins) THEN Zero
       ELSE LET n    == RefFirstNumber(b)
                base == IF isMins /\ ~isHours THEN Over(n, 60) ELSE n
            IN IF perDay THEN Times(base, 5)
               ELSE IF perMonth THEN Over(base, 4)
               ELSE base

\* C9: parseBenefitToWeeklyHours equals the reference (0 without a number
\* or a unit keyword; else the first number, /60 only for minutes without an
\* hour keyword, then x5 for per day/daily, else /4 for per month/monthly),
\* and the result is never negative.
C9_ParseMatchesReference ==
    benPc = "done" =>
        /\ FracEq(hours, RefWeeklyHours(benefit))
        /\ hours[1] >= 0 /\ hours[2] > 0

\* C9 witness: both unit keywords and both period keywords appear, with a number
C9_Witness ==
    /\ benPc = "done"
    /\ LET text == ToLowerCase(benefit) IN
          /\ Includes(text, K_hr) /\ Includes(text, K_min)
          /\ Includes(text, K_daily) /\ Includes(text, K_monthly)
    /\ hours[1] > 0
    /\ ~FracEq(hours, ParseFloat(MatchNumber(benefit)))

(***************************************************************************)
(* VisualizationComponent.chartData                                        *)
(***************************************************************************)

\* .map(s => ({ area: s.area, hoursSaved: this.parseBenefitToWeeklyHours(s.benefit) }))
ToChartRecord(s) ==
    [area |-> s.area, hoursSaved |-> parseBenefitToWeeklyHours(s.benefit)]

\* .filter(s => s.hoursSaved > 0)
KeepRecord(r) == r.hoursSaved[1] > 0

\* variant: the comparator sorts ascending
Compare_Ascending(a, b) ==
    IF a.hoursSaved[1] * b.hoursSaved[2] > b.hoursSaved[1] * a.hoursSaved[2] THEN 1
    ELSE IF a.hoursSaved[1] * b.hoursSaved[2] = b.hoursSaved[1] * a.hoursSaved[2] THEN 0
    ELSE -1

\* the sign of (a, b) => b.hoursSaved - a.hoursSaved
Compare(a, b) ==
    IF b.hoursSaved[1] * a.hoursSaved[2] > a.hoursSaved[1] * b.hoursSaved[2] THEN 1
    ELSE IF b.hoursSaved[1] * a.hoursSaved[2] = a.hoursSaved[1] * b.hoursSaved[2] THEN 0
    ELSE -1

\* Array.prototype.map with the callback above
RECURSIVE MapRecords(_)
MapRecords(q) ==
    IF q = <<>> THEN <<>>
    ELSE <<ToChartRecord(Head(q))>> \o MapRecords(Tail(q))

RECURSIVE FilterSeq(_)
FilterSeq(q) ==
    IF q = <<>> THEN <<>>
    ELSE IF KeepRecord(Head(q)) THEN <<Head(q)>> \o FilterSeq(Tail(q))
    ELSE FilterSeq(Tail(q))

\* x placed behind every element it does not have to precede
RECURSIVE InsertStable(_, _)
InsertStable(sorted, x) ==
    IF sorted = <<>> THEN <<x>>
    ELSE IF Compare(Head(sorted), x) > 0 THEN <<x>> \o sorted
    ELSE <<Head(sorted)>> \o InsertStable(Tail(sorted), x)

\* Array.prototype.sort(compare): a stable sort
RECURSIVE SortStable(_)
SortStable(q) ==
    IF q = <<>> THEN <<>>
    ELSE InsertStable(SortStable(SubSeq(q, 1, Len(q) - 1)), q[Len(q)])

\* the computed() body
ChartDataOf(input) ==
    IF input.isNull THEN <<>>
    ELSE SortStable(FilterSeq(MapRecords(input.items)))

(***************************************************************************)
(* Specification of chartData: null or up to MaxSuggestions suggestions.   *)
(***************************************************************************)

MaxSuggestions == 3

ChartAreas == { "Reports", "Email" }

ChartBenefits == {
    <<"S","a","v","e","s"," ","2"," ","h","o","u","r","s">>,
    <<"1","2","0"," ","m","i","n","u","t","e","s">>,
    <<"1"," ","h","o","u","r"," ","d","a","i","l","y">>,
    <<"F","e","w","e","r"," ","e","r","r","o","r","s">>,
    <<"0"," ","h","o","u","r","s">>,
    <<"3","0"," ","m","i","n">> }

ChartSuggestions ==
    { [area |-> a, tool |-> "tool", benefit |-> b, steps |-> <<"step">>] :
        a \in ChartAreas, b \in ChartBenefits }

ChartInit ==
    /\ \/ chartInput = NullList
       \/ \E n \in 0..MaxSuggestions :
             \E q \in [1..n -> ChartSuggestions] : chartInput = ListOf(q)
    /\ chartData = <<>>
    /\ chartPc = "ready"
    /\ SumIdle /\ BenIdle /\ AppIdle

ComputeChartData ==
    /\ chartPc = "ready"
    /\ chartData' = ChartDataOf(chartInput)
    /\ chartPc' = "done"
    /\ UNCHANGED chartInput
    /\ UNCHANGED <<sumVars, benVars, appVars>>

ChartNext == ComputeChartData

SpecChart == ChartInit /\ [][ChartNext]_vars

\* out is the ranking of the mapped records m: the records with hoursSaved > 0,
\* each at the position counted from m (one more than the number of kept
\* records with a larger value, or with an equal value and earlier in m)
IsRanking(m, out) ==
    LET kept == { k \in DOMAIN m : m[k].hoursSaved[1] > 0 }
        pos(k) == 1 + Cardinality({ j \in kept :
                                      FracLess(m[k].hoursSaved, m[j].hoursSaved) })
                    + Cardinality({ j \in kept :
                                      j < k /\ FracEq(m[j].hoursSaved, m[k].hoursSaved) })
    IN /\ Len(out) = Cardinality(kept)
       /\ \A k \in kept : out[pos(k)] = m[k]

\* C10: chartData holds exactly the suggestions whose parsed hoursSaved is
\* > 0, in descending order of hoursSaved, equal values in their original
\* relative order; null and empty input give an empty result.
C10_RankedChartData ==
    chartPc = "done" => IsRanking(MapRecords(chartInput.items), chartData)

\* C10 witness: three kept suggestions, two of them tied with different
\* areas, and the sort had to move one
C10_Witness ==
    /\ chartPc = "done" /\ ~chartInput.isNull
    /\ Len(chartInput.items) >= 3 /\ Len(chartData) = 3
    /\ \E i, j \in DOMAIN chartData :
          /\ i < j /\ chartData[i].area # chartData[j].area
          /\ FracEq(chartData[i].hoursSaved, chartData[j].hoursSaved)
    /\ FracLess(parseBenefitToWeeklyHours(chartInput.items[1].benefit), chartData[1].hoursSaved)

(***************************************************************************)
(* generateDirectorySummary: the summary text, and String.prototype.trim   *)
(***************************************************************************)

RECURSIVE JoinLines(_)
\* fileTree.join('\n')
JoinLines(q) ==
    IF q = <<>> THEN <<>>
    ELSE IF Len(q) = 1 THEN q[1]
    ELSE q[1] \o <<"\n">> \o JoinLines(Tail(q))

RECURSIVE FileBlocks(_)
\* summary += "### FILE: <path>\n<fence>\n<content>\n<fence>\n\n", a fence being
\* three backquotes ("fence") and the content one element
FileBlocks(fs) ==
    IF fs = <<>> THEN <<>>
    ELSE <<"#","#","#"," ","F","I","L","E",":"," ">> \o fs[1].path
         \o <<"\n", "fence", "\n", fs[1].content, "\n", "fence", "\n", "\n">>
         \o FileBlocks(Tail(fs))

\* the string generateDirectorySummary returns
BuildSummary(rootName, lines, files) ==
    <<"D","i","r","e","c","t","o","r","y"," ","R","o","o","t",":"," ">> \o rootName \o <<"\n", "\n">>
    \o <<"D","i","r","e","c","t","o","r","y"," ","S","t","r","u","c","t","u","r","e",":","\n">>
    \o JoinLines(lines) \o <<"\n", "\n">>
    \o (IF files # <<>>
        THEN <<"-","-","-"," ","K","e","y"," ","F","i","l","e"," ","C","o","n","t","e","n","t","s"," ","-","-","-","\n","\n">> \o FileBlocks(files)
        ELSE <<>>)

IsWhiteSpace(c) == c \in {" ", "\n", "\t"}

RECURSIVE TrimStart(_)
TrimStart(s) ==
    IF s # <<>> /\ IsWhiteSpace(Head(s)) THEN TrimStart(Tail(s)) ELSE s

RECURSIVE TrimEnd(_)
TrimEnd(s) ==
    IF s # <<>> /\ IsWhiteSpace(s[Len(s)]) THEN TrimEnd(SubSeq(s, 1, Len(s) - 1)) ELSE s

\* String.prototype.trim
Trim(s) == TrimEnd(TrimStart(s))

(***************************************************************************)
(* Messages and thrown values                                              *)
(***************************************************************************)

MsgNoTask        == "Please describe a task to analyze."
MsgNoneForTask   == "No automation suggestions could be generated for this task. Please try a different description."
MsgNoneForProject == "No automation suggestions could be generated for this project. It might not contain recognizable configuration files."
MsgNoneForLearning == "No learning automation suggestions could be generated. Try a folder with more text-based content like .md or .txt files."
MsgUnknown       == "An unknown error occurred."
MsgUnsupported   == "Your browser does not support scanning local folders. Please use a modern browser like Chrome or Edge."
MsgEmptyDir      == "The selected directory appears to be empty or could not be read."
MsgNotConfigured == "Gemini API key is not configured. Please set the API_KEY environment variable to use the application."
MsgGeneric       == "Failed to get automation suggestions. Please check your API key and try again."
\* what the runtime says for response.suggestions.length with suggestions undefined
MsgTypeError     == "Cannot read properties of undefined (reading length)"

\* a thrown value: an Error (DOMException included) with its name and message
Exc(isDom, name, message) ==
    [isError |-> TRUE, isDOMException |-> isDom, name |-> name, message |-> message]

ErrUnsupported   == Exc(FALSE, "Error", MsgUnsupported)
ErrEmptyDir      == Exc(FALSE, "Error", MsgEmptyDir)
ErrNotConfigured == Exc(FALSE, "Error", MsgNotConfigured)
ErrGeneric       == Exc(FALSE, "Error", MsgGeneric)
ErrTypeError     == Exc(FALSE, "TypeError", MsgTypeError)
ErrAbort         == Exc(TRUE, "AbortError", "The user aborted a request.")
ErrNotAllowed    == Exc(TRUE, "NotAllowedError", "The request is not allowed by the user agent.")
ErrNotReadable   == Exc(TRUE, "NotReadableError", "The requested file could not be read.")

\* e instanceof Error ? e.message : 'An unknown error occurred.'
CatchMessage(e) == IF e.isError THEN e.message ELSE MsgUnknown

(***************************************************************************)
(* GeminiService                                                           *)
(***************************************************************************)

\* process.env.API_KEY: undefined, empty, or a key
ApiKeys == { NULL, "", "key" }

\* variant: only an undefined key counts as missing
HasApiKey_DefinedOnly(k) == k # NULL

\* if (apiKey)
HasApiKey(k) == k # NULL /\ k # ""

\* if (!this.isConfigured || !this.ai)
NotConfigured(cfgd, client) == ~cfgd \/ client = NULL

\* what generateContent can settle with: a rejection, or a response whose
\* text is undefined, is no JSON, or is the JSON text of the given value
JsonNull == [type |-> "null", hasSuggestions |-> FALSE, suggestions |-> <<>>]
JsonObject(has, list) == [type |-> "object", hasSuggestions |-> has, suggestions |-> list]

Suggestion1 ==
    [area |-> "Reports", tool |-> "tool",
     benefit |-> <<"S","a","v","e","s"," ","2"," ","h","o","u","r","s">>, steps |-> <<"step">>]
Suggestion2 ==
    [area |-> "Email", tool |-> "tool",
     benefit |-> <<"3","0"," ","m","i","n">>, steps |-> <<"step">>]

AIOutcomes == {
    [kind |-> "rejected",       json |-> NoJson],
    [kind |-> "text-undefined", json |-> NoJson],
    [kind |-> "not-json",       json |-> NoJson],
    [kind |-> "json",           json |-> JsonNull],
    [kind |-> "json",           json |-> JsonObject(FALSE, <<>>)],
    [kind |-> "json",           json |-> JsonObject(TRUE, <<>>)],
    [kind |-> "json",           json |-> JsonObject(TRUE, <<Suggestion1>>)],
    [kind |-> "json",           json |-> JsonObject(TRUE, <<Suggestion1, Suggestion2>>)] }

\* the try block of generateSuggestions after the request settles:
\* response.text.trim(), JSON.parse, return; anything thrown is replaced
GenerateSuggestionsResult(o) ==
    IF o.kind = "json"
    THEN [threw |-> FALSE, exc |-> ExcNone, value |-> o.json]
    ELSE [threw |-> TRUE, exc |-> ErrGeneric, value |-> NoJson]

(***************************************************************************)
(* AppComponent                                                            *)
(***************************************************************************)

examplePrompts == <<
    <<"E","v","e","r","y"," ","m","o","r","n","i","n","g",","," ","I"," ","h","a","v","e"," ",
      "t","o"," ","c","h","e","c","k"," ","5"," ","d","i","f","f","e","r","e","n","t"," ","w",
      "e","b","s","i","t","e","s"," ","f","o","r"," ","u","p","d","a","t","e","s",","," ","c",
      "o","p","y"," ","t","h","e"," ","k","e","y"," ","i","n","f","o","r","m","a","t","i","o",
      "n"," ","i","n","t","o"," ","a"," ","s","p","r","e","a","d","s","h","e","e","t",","," ",
      "a","n","d"," ","t","h","e","n"," ","e","m","a","i","l"," ","a"," ","s","u","m","m","a",
      "r","y"," ","t","o"," ","m","y"," ","t","e","a","m",".">>,
    <<"F","o","r"," ","m","y"," ","m","o","n","t","h","l","y"," ","r","e","p","o","r","t",",",
      " ","I"," ","d","o","w","n","l","o","a","d"," ","C","S","V"," ","f","i","l","e","s"," ",
      "f","r","o","m"," ","t","h","r","e","e"," ","d","i","f","f","e","r","e","n","t"," ","s",
      "y","s","t","e","m","s",","," ","c","o","m","b","i","n","e"," ","t","h","e","m",","," ",
      "f","i","l","t","e","r"," ","f","o","r"," ","s","p","e","c","i","f","i","c"," ","c","l",
      "i","e","n","t","s",","," ","a","n","d"," ","t","h","e","n"," ","c","r","e","a","t","e",
      " ","c","h","a","r","t","s"," ","i","n"," ","a"," ","p","r","e","s","e","n","t","a","t",
      "i","o","n",".">>,
    <<"I"," ","m","a","n","a","g","e"," ","s","o","c","i","a","l"," ","m","e","d","i","a"," ",
      "p","o","s","t","s","."," ","I"," ","h","a","v","e"," ","t","o"," ","m","a","n","u","a",
      "l","l","y"," ","p","o","s","t"," ","t","h","e"," ","s","a","m","e"," ","c","o","n","t",
      "e","n","t"," ","t","o"," ","T","w","i","t","t","e","r",","," ","F","a","c","e","b","o",
      "o","k",","," ","a","n","d"," ","L","i","n","k","e","d","I","n"," ","e","v","e","r","y",
      " ","d","a","y"," ","a","n","d"," ","t","h","e","n"," ","c","h","e","c","k"," ","f","o",
      "r"," ","c","o","m","m","e","n","t","s",".">> >>

\* the directories the user can pick
PickedTrees == {
    << Dir(N_proj, "ok"), File(N_notes_md, 50, "ok", "ok"), Dir(N_src, "ok"),
       Dir(N_src, "ok"), Dir(N_src, "ok"), File(N_package_json, 50, "ok", "ok") >>,
    << Dir(N_proj, "ok"), Dir(N_src, "fail"), Dir(N_src, "ok"),
       Dir(N_src, "ok"), Dir(N_src, "ok"), File(N_main_ts, 50, "ok", "ok") >>,
    << Dir(N_dist, "ok"), Dir(N_src, "ok"), Dir(N_src, "ok"),
       Dir(N_src, "ok"), Dir(N_src, "ok"), File(N_notes_md, 50, "ok", "ok") >> }

\* what window.showDirectoryPicker() can settle with
PickerOutcomes ==
    { [kind |-> "rejected", exc |-> e, tree |-> <<>>] : e \in {ErrAbort, ErrNotAllowed} }
    \cup { [kind |-> "handle", exc |-> ExcNone, tree |-> t] : t \in PickedTrees }

TextOf(s) == [isNull |-> FALSE, text |-> s]

\* variant: no thrown value counts as a cancellation
IsUserCancel_Never(e) == FALSE

\* err instanceof DOMException && err.name === 'AbortError'
IsUserCancel(e) == e.isDOMException /\ e.name = "AbortError"

\* pickAndSummarizeDirectory once showDirectoryPicker has settled with p:
\* what it returns (a summary or null) or throws
PickAndSummarize(p, kf, ce) ==
    LET r   == RunTraverse(p.tree, kf, ce, DefaultMaxDepth)
        sum == BuildSummary(p.tree[Root].name, r.fileTree, r.importantFiles)
        thrown == IF p.kind = "rejected" THEN p.exc
                  ELSE IF r.raised THEN ErrNotReadable
                  ELSE IF Trim(sum) = <<>> THEN ErrEmptyDir
                  ELSE ExcNone
    IN IF thrown = ExcNone THEN [threw |-> FALSE, exc |-> ExcNone, summary |-> TextOf(sum)]
       ELSE IF IsUserCancel(thrown) THEN [threw |-> FALSE, exc |-> ExcNone, summary |-> NoText]
       ELSE [threw |-> TRUE, exc |-> thrown, summary |-> NoText]

OpKeyFiles(name) ==
    CASE name = "analyzeTask"      -> [keyFiles |-> TaskKeyFiles, checkExtension |-> TRUE]
      [] name = "scanLocalProject" -> [keyFiles |-> ProjectKeyFiles, checkExtension |-> FALSE]
      [] OTHER                     -> [keyFiles |-> LearningKeyFiles, checkExtension |-> TRUE]

NoSuggestionsMessage(name) ==
    CASE name = "analyzeTask"      -> MsgNoneForTask
      [] name = "scanLocalProject" -> MsgNoneForProject
      [] OTHER                     -> MsgNoneForLearning

LoadingStateOf(name) ==
    CASE name = "analyzeTask"      -> "analyzing_task"
      [] name = "scanLocalProject" -> "scanning_project"
      [] OTHER                     -> "scanning_learning"

MaxRequests == 2

AppInit ==
    /\ apiKey \in ApiKeys
    /\ hasDirectoryPicker \in BOOLEAN
    \* GeminiService constructor
    /\ isConfigured = HasApiKey(apiKey)
    /\ ai = IF HasApiKey(apiKey) THEN "client" ELSE NULL
    /\ requests = 0
    \* AppComponent field initialisers
    /\ taskDescription = <<>>
    /\ suggestions = NullList
    /\ loadingState = "idle"
    /\ error = NULL
    /\ op = OpNone
    /\ lastOp = LastNone
    /\ SumIdle /\ BenIdle /\ ChartIdle

\* get...AutomationSuggestions -> generateSuggestions, up to its first await:
\* the configuration check, then the request is sent
CallService(o) ==
    IF NotConfigured(isConfigured, ai)
    THEN [op |-> [o EXCEPT !.pc = "thrown", !.exc = ErrNotConfigured, !.called = TRUE],
          requests |-> requests]
    ELSE [op |-> [o EXCEPT !.pc = "ai", !.called = TRUE, !.sent = @ + 1],
          requests |-> requests + 1]

\* pickAndSummarizeDirectory up to its first await: the capability check
CallPicker(o) ==
    IF ~hasDirectoryPicker
    THEN [o EXCEPT !.pc = "thrown", !.exc = ErrUnsupported, !.picker = "unsupported"]
    ELSE [o EXCEPT !.pc = "picker"]

\* the history record of the operation o as it finishes
LastOf(o, aiKind, json, end) ==
    [name |-> o.name, picker |-> o.picker, ai |-> aiKind, json |-> json,
     called |-> o.called, sent |-> o.sent, end |-> end]

\* variant: the operation ends without resetting loadingState
Finish_KeepsLoading(newError, newSuggestions, last) ==
    /\ loadingState' = loadingState
    /\ error' = newError
    /\ suggestions' = newSuggestions
    /\ op' = OpNone
    /\ lastOp' = last

\* the operation ends: finally { this.loadingState.set('idle') }
Finish(newError, newSuggestions, last) ==
    /\ loadingState' = "idle"
    /\ error' = newError
    /\ suggestions' = newSuggestions
    /\ op' = OpNone
    /\ lastOp' = last

\* loadingState.set(...); suggestions.set(null); error.set(null)
Begin(name) ==
    /\ loadingState' = LoadingStateOf(name)
    /\ suggestions' = NullList
    /\ error' = NULL

\* selectExample(prompt)
SelectExample ==
    /\ \E i \in DOMAIN examplePrompts : taskDescription' = examplePrompts[i]
    /\ UNCHANGED <<apiKey, hasDirectoryPicker, isConfigured, ai, requests, suggestions,
                   loadingState, error, op, lastOp>>
    /\ UNCHANGED <<sumVars, benVars, chartVars>>

\* analyzeTask(), to its first await; confirm is the answer to window.confirm
AnalyzeTask ==
    /\ op.name = "none"
    /\ requests < MaxRequests
    /\ \E confirm \in BOOLEAN :
          LET new == [OpNone EXCEPT !.name = "analyzeTask"] IN
          IF Trim(taskDescription) = <<>>
          THEN /\ error' = MsgNoTask
               /\ lastOp' = LastOf(new, "none", NoJson, "invalid-input")
               /\ UNCHANGED <<loadingState, suggestions, op, requests>>
          ELSE /\ Begin("analyzeTask")
               /\ IF confirm
                  THEN op' = CallPicker(new) /\ UNCHANGED requests
                  ELSE LET c == CallService(new) IN
                       op' = c.op /\ requests' = c.requests
               /\ UNCHANGED lastOp
    /\ UNCHANGED <<apiKey, hasDirectoryPicker, isConfigured, ai, taskDescription>>
    /\ UNCHANGED <<sumVars, benVars, chartVars>>

\* scanLocalProject(), to its first await
ScanLocalProject ==
    /\ op.name = "none"
    /\ requests < MaxRequests
    /\ Begin("scanLocalProject")
    /\ op' = CallPicker([OpNone EXCEPT !.name = "scanLocalProject"])
    /\ UNCHANGED <<apiKey, hasDirectoryPicker, isConfigured, ai, requests,
                   taskDescription, lastOp>>
    /\ UNCHANGED <<sumVars, benVars, chartVars>>

\* scanLearningFolder(), to its first await
ScanLearningFolder ==
    /\ op.name = "none"
    /\ requests < MaxRequests
    /\ Begin("scanLearningFolder")
    /\ op' = CallPicker([OpNone EXCEPT !.name = "scanLearningFolder"])
    /\ UNCHANGED <<apiKey, hasDirectoryPicker, isConfigured, ai, requests,
                   taskDescription, lastOp>>
    /\ UNCHANGED <<sumVars, benVars, chartVars>>

\* how the picker ended, for the history
PickerEnd(p, traversalRaised) ==
    IF p.kind = "rejected"
    THEN (IF p.exc.name = "AbortError" THEN "abort" ELSE "error")
    ELSE IF traversalRaised THEN "raised" ELSE "summary"

\* showDirectoryPicker settles: the rest of pickAndSummarizeDirectory, and the
\* caller up to its next await
PickerSettles ==
    /\ op.pc = "picker"
    /\ \E p \in PickerOutcomes :
          LET cfg == OpKeyFiles(op.name)
              r   == PickAndSummarize(p, cfg.keyFiles, cfg.checkExtension)
              tr  == p.kind = "handle"
                     /\ RunTraverse(p.tree, cfg.keyFiles, cfg.checkExtension,
                                    DefaultMaxDepth).raised
              o   == [op EXCEPT !.picker = PickerEnd(p, tr), !.context = r.summary]
          IN IF r.threw
             THEN \* catch (e) { this.error.set(errorMessage) }
                  /\ Finish(CatchMessage(r.exc), suggestions,
                            LastOf(o, "none", NoJson, "error"))
                  /\ UNCHANGED requests
             ELSE IF r.summary.isNull /\ op.name # "analyzeTask"
             THEN \* if (summary === null) return; // User cancelled
                  /\ Finish(error, suggestions, LastOf(o, "none", NoJson, "cancelled"))
                  /\ UNCHANGED requests
             ELSE LET c == CallService(o) IN
                  /\ op' = c.op
                  /\ requests' = c.requests
                  /\ UNCHANGED <<loadingState, error, suggestions, lastOp>>
    /\ UNCHANGED <<apiKey, hasDirectoryPicker, isConfigured, ai, taskDescription>>
    /\ UNCHANGED <<sumVars, benVars, chartVars>>

\* the awaited call had thrown: catch and finally of the operation
Thrown ==
    /\ op.pc = "thrown"
    /\ Finish(CatchMessage(op.exc), suggestions, LastOf(op, "none", NoJson, "error"))
    /\ UNCHANGED <<apiKey, hasDirectoryPicker, isConfigured, ai, requests, taskDescription>>
    /\ UNCHANGED <<sumVars, benVars, chartVars>>

\* if (response && response.suggestions.length > 0) ... else ..., with the
\* catch around it: the new error and suggestions, and how the operation ended
HandleResponse(name, g) ==
    IF g.threw
    THEN [error |-> CatchMessage(g.exc), suggestions |-> suggestions, end |-> "error"]
    ELSE IF g.value.type = "null"
    THEN [error |-> NoSuggestionsMessage(name), suggestions |-> suggestions, end |-> "empty"]
    ELSE IF ~g.value.hasSuggestions
    THEN [error |-> CatchMessage(ErrTypeError), suggestions |-> suggestions, end |-> "error"]
    ELSE IF Len(g.value.suggestions) > 0
    THEN [error |-> error, suggestions |-> ListOf(g.value.suggestions), end |-> "suggestions"]
    ELSE [error |-> NoSuggestionsMessage(name), suggestions |-> suggestions, end |-> "empty"]

\* generateContent settles: the rest of generateSuggestions and of the operation
AISettles ==
    /\ op.pc = "ai"
    /\ \E a \in AIOutcomes :
          LET h == HandleResponse(op.name, GenerateSuggestionsResult(a)) IN
          Finish(h.error, h.suggestions, LastOf(op, a.kind, a.json, h.end))
    /\ UNCHANGED <<apiKey, hasDirectoryPicker, isConfigured, ai, requests, taskDescription>>
    /\ UNCHANGED <<sumVars, benVars, chartVars>>

AppNext ==
    \/ SelectExample
    \/ AnalyzeTask
    \/ ScanLocalProject
    \/ ScanLearningFolder
    \/ PickerSettles
    \/ Thrown
    \/ AISettles

SpecApp == AppInit /\ [][AppNext]_vars

(***************************************************************************)
(* Properties of the operations.                                           *)
(***************************************************************************)

ScanOps == { "scanLocalProject", "scanLearningFolder" }

\* C6: when the picker is dismissed (AbortError), pickAndSummarizeDirectory
\* returns null instead of raising; scanLocalProject and scanLearningFolder
\* then finish with error = null, no suggestions and no request sent.
C6_CancelIsSilent ==
    (op.name = "none" /\ lastOp.picker = "abort") =>
        /\ lastOp.name \in ScanOps =>
              /\ lastOp.end = "cancelled"
              /\ error = NULL
              /\ suggestions = NullList
              /\ ~lastOp.called /\ lastOp.sent = 0
              /\ loadingState = "idle"
        \* analyzeTask goes on without context: the null summary was returned
        /\ lastOp.name = "analyzeTask" => lastOp.called

\* C6 witness: a scan ended by a dismissed picker, with the AI service configured
C6_Witness ==
    /\ op.name = "none" /\ lastOp.picker = "abort"
    /\ lastOp.name = "scanLocalProject"
    /\ isConfigured

\* C7 as stated: a response that is no JSON, or is JSON without the
\* suggestions field, ends in the generic "Failed to get automation
\* suggestions" message, with suggestions still null.
C7_MalformedIsGeneric ==
    (/\ op.name = "none"
     /\ \/ lastOp.ai = "not-json"
        \/ (lastOp.ai = "json" /\ lastOp.json.type = "object"
            /\ ~lastOp.json.hasSuggestions))
        => (error = MsgGeneric /\ suggestions = NullList)

\* C8: without an API key at startup isConfigured stays false, no request
\* is ever sent, and every call of the service fails at once with the
\* not-configured error, which is the message reported.
C8_NotConfiguredFailsFast ==
    (apiKey = NULL \/ apiKey = "") =>
        /\ isConfigured = FALSE
        /\ requests = 0
        /\ op.pc # "ai" /\ op.sent = 0
        /\ op.called => (op.pc = "thrown" /\ op.exc.message = MsgNotConfigured)
        /\ (op.name = "none" /\ lastOp.called) =>
              /\ error = MsgNotConfigured
              /\ suggestions = NullList
              /\ lastOp.sent = 0 /\ lastOp.ai = "none"

\* C8 witness: with an empty key, a scan got as far as calling the service
C8_Witness ==
    /\ apiKey = ""
    /\ op.name = "none" /\ lastOp.called
    /\ lastOp.name = "scanLearningFolder" /\ lastOp.picker = "summary"

(***************************************************************************)
(* The operations under fairness: a continuation runs once the promise it  *)
(* awaits has settled, and the picker and the AI request do settle.        *)
(***************************************************************************)

SpecAppFair ==
    /\ SpecApp
    /\ WF_vars(PickerSettles)
    /\ WF_vars(Thrown)
    /\ WF_vars(AISettles)

\* the loadingState that goes with the operation in flight
LoadingWhile(name) ==
    CASE name = "none"               -> "idle"
      [] name = "analyzeTask"        -> "analyzing_task"
      [] name = "scanLocalProject"   -> "scanning_project"
      [] name = "scanLearningFolder" -> "scanning_learning"

\* C11: with no overlapping operations, loadingState is non-idle exactly
\* while an operation is in flight and names that operation, and every
\* started operation eventually brings loadingState back to 'idle',
\* whatever its outcome.
C11_LoadingTracksOperation ==
    /\ [](loadingState = LoadingWhile(op.name))
    /\ (op.name # "none") ~> (op.name = "none" /\ loadingState = "idle")

\* C11 witness: an operation that got as far as the AI call has ended by
\* an error, and loadingState is back to idle
C11_Witness ==
    /\ op.name = "none" /\ loadingState = "idle"
    /\ lastOp.name = "scanLearningFolder"
    /\ lastOp.ai = "rejected" /\ lastOp.end = "error"

\* C12 as stated: whenever loadingState is 'idle', suggestions is non-null
\* only if error is null, and a non-null suggestions list is non-empty.
C12_ResultXorError ==
    loadingState = "idle" =>
        (~suggestions.isNull => (error = NULL /\ Len(suggestions.items) > 0))

====
